---- MODULE Spec2Model ----
(***************************************************************************)
(* public-ip: one lookup call (publicIpv4 / publicIpv6 / publicIp) as a    *)
(* state machine.  A state is the state of the promises, signals, sockets  *)
(* and transport calls of one call; an action is one event-loop turn (the  *)
(* synchronous call, one transport completion, one abort event) together   *)
(* with the promise reactions it triggers.                                 *)
(*                                                                         *)
(* Strings are sequences of one-character strings, so that trimming,       *)
(* the TXT transform and the IP validation are computed, not assumed.      *)
(***************************************************************************)
EXTENDS Integers, Sequences, FiniteSets

(* ------------------------------------------------------------------ *)
(* Bounds of the model: lengths of the configured target lists.        *)
(* ------------------------------------------------------------------ *)
NumDns == 2
NumBuiltin == 2
MaxFallback == 1

Family == {"v4", "v6"}

(* ------------------------------------------------------------------ *)
(* Strings the transports can deliver.                                 *)
(* ------------------------------------------------------------------ *)
Ip4Plain == <<"2", "0", "3", ".", "0", ".", "1", "1", "3", ".", "1", "0">>
Ip4Padded == <<"\f", " ", "1", "9", "2", ".", "1", "6", "8", ".", "1", ".", "1", "\n">>
Ip4Quoted == <<"\"", "2", "0", "3", ".", "0", ".", "1", "1", "3", ".", "2", "0", "\"">>
Ip4BadOctet == <<"2", "0", "3", ".", "0", ".", "1", "1", "3", ".", "2", "5", "6">>
Ip6Plain == <<"2", "0", "0", "1", ":", "d", "b", "8", ":", ":", "1">>
\* padded, with an IPv4 dotted quad as the last 32 bits
Ip6Padded ==
  <<"6", "4", ":", "f", "f", "9", "b", ":", ":", "1", "9", "2", ".", "0", ".",
    "2", ".", "3", "3", "\n">>
\* quoted, with a zone id
Ip6Quoted == <<"\"", "f", "e", "8", "0", ":", ":", "1", "%", "e", "t", "h", "0", "\"">>
TextBlank == <<" ", "\n">>
TextEmpty == <<>>
TextGarbage == <<"i", "n", "v", "a", "l", "i", "d", "-", "i", "p">>

Texts ==
  {Ip4Plain, Ip4Padded, Ip4Quoted, Ip4BadOctet, Ip6Plain, Ip6Padded, Ip6Quoted,
   TextBlank, TextEmpty, TextGarbage}

(* ------------------------------------------------------------------ *)
(* String.prototype.trim, String.prototype.replaceAll('"', '')         *)
(* ------------------------------------------------------------------ *)
\* trim strips WhiteSpace and LineTerminator: TAB, LF, VT, FF, CR, SP, NBSP,
\* U+1680, ZWNBSP; the Zs characters U+2000..U+200A, U+202F, U+205F, U+3000
\* and LS / PS (U+2028, U+2029) cannot be written in a string of this
\* module and are outside the alphabet of the transports' texts
WhiteSpace ==
  {" ", "\n", "\t", "\r", "\f", "", " ", " ", "﻿"}

RECURSIVE trimStart(_)
trimStart(s) ==
  IF s # <<>> /\ Head(s) \in WhiteSpace THEN trimStart(Tail(s)) ELSE s

RECURSIVE trimEnd(_)
trimEnd(s) ==
  IF s # <<>> /\ s[Len(s)] \in WhiteSpace
  THEN trimEnd(SubSeq(s, 1, Len(s) - 1))
  ELSE s

trim(s) == trimEnd(trimStart(s))

stripQuotes(s) == SelectSeq(s, LAMBDA c : c # "\"")

(* ------------------------------------------------------------------ *)
(* node:net isIPv4 / isIPv6. IPv4: a dotted quad of 0..255 without     *)
(* leading zeros. IPv6: eight groups of 1..4 hex digits, or fewer with *)
(* one "::"; the last two groups may be written as an IPv4 dotted      *)
(* quad; a zone id ("%" and one or more of [0-9a-zA-Z-.:]) may follow. *)
(* ------------------------------------------------------------------ *)
Digit == {"0", "1", "2", "3", "4", "5", "6", "7", "8", "9"}
HexDigit == Digit \cup {"a", "b", "c", "d", "e", "f", "A", "B", "C", "D", "E", "F"}

DigitVal(c) ==
  CASE c = "0" -> 0 [] c = "1" -> 1 [] c = "2" -> 2 [] c = "3" -> 3 [] c = "4" -> 4
    [] c = "5" -> 5 [] c = "6" -> 6 [] c = "7" -> 7 [] c = "8" -> 8 [] c = "9" -> 9

RECURSIVE Split(_, _)
Split(s, sep) ==
  IF \E i \in 1..Len(s) : s[i] = sep
  THEN LET i == CHOOSE k \in 1..Len(s) : s[k] = sep /\ \A j \in 1..(k - 1) : s[j] # sep
       IN  <<SubSeq(s, 1, i - 1)>> \o Split(SubSeq(s, i + 1, Len(s)), sep)
  ELSE <<s>>

RECURSIVE DecVal(_)
DecVal(p) ==
  IF p = <<>> THEN 0 ELSE 10 * DecVal(SubSeq(p, 1, Len(p) - 1)) + DigitVal(p[Len(p)])

IsOctet(p) ==
  /\ Len(p) \in 1..3
  /\ \A i \in 1..Len(p) : p[i] \in Digit
  /\ (Len(p) > 1 => p[1] # "0")
  /\ DecVal(p) <= 255

isIPv4(s) ==
  LET parts == Split(s, ".")
  IN  Len(parts) = 4 /\ \A i \in 1..4 : IsOctet(parts[i])

IsHexGroup(p) == Len(p) \in 1..4 /\ \A i \in 1..Len(p) : p[i] \in HexDigit

Letter ==
  {"a", "b", "c", "d", "e", "f", "g", "h", "i", "j", "k", "l", "m", "n", "o", "p",
   "q", "r", "s", "t", "u", "v", "w", "x", "y", "z",
   "A", "B", "C", "D", "E", "F", "G", "H", "I", "J", "K", "L", "M", "N", "O", "P",
   "Q", "R", "S", "T", "U", "V", "W", "X", "Y", "Z"}

ZoneChar == Digit \cup Letter \cup {"-", ".", ":"}

\* number of 16-bit groups of a colon-separated list of hex groups, whose
\* last element may be a dotted quad (two groups) when v4Tail; -1 when
\* malformed
GroupCount(s, v4Tail) ==
  IF s = <<>> THEN 0
  ELSE LET parts == Split(s, ":")
           n == Len(parts)
       IN  IF v4Tail /\ isIPv4(parts[n])
           THEN IF \A i \in 1..(n - 1) : IsHexGroup(parts[i]) THEN n + 1 ELSE -1
           ELSE IF \A i \in 1..n : IsHexGroup(parts[i]) THEN n ELSE -1

\* the address before the zone id
IsIPv6Address(s) ==
  LET gaps == {i \in 1..(Len(s) - 1) : s[i] = ":" /\ s[i + 1] = ":"}
  IN  IF gaps = {} THEN GroupCount(s, TRUE) = 8
      ELSE /\ Cardinality(gaps) = 1
           /\ LET i == CHOOSE k \in gaps : TRUE
                  l == GroupCount(SubSeq(s, 1, i - 1), FALSE)
                  r == GroupCount(SubSeq(s, i + 2, Len(s)), TRUE)
              IN  l >= 0 /\ r >= 0 /\ l + r <= 7

isIPv6(s) ==
  LET marks == {i \in 1..Len(s) : s[i] = "%"}
  IN  IF marks = {} THEN IsIPv6Address(s)
      ELSE LET m == CHOOSE k \in marks : \A j \in marks : k <= j
           IN  /\ IsIPv6Address(SubSeq(s, 1, m - 1))
               /\ m < Len(s)
               /\ \A i \in (m + 1)..Len(s) : s[i] \in ZoneChar

validateIpAcceptsEmpty(ip, version) ==
  ip = <<>> \/ (IF version = "v6" THEN isIPv6(ip) ELSE isIPv4(ip))

validateIp(ip, version) ==
  ip # <<>> /\ (IF version = "v6" THEN isIPv6(ip) ELSE isIPv4(ip))


(* ------------------------------------------------------------------ *)
(* Configuration (constants.js): the lookup targets and the defaults.  *)
(* ------------------------------------------------------------------ *)
\* dnsServers, flattened per family: the A/AAAA questions first (no
\* transform), then the TXT questions, whose answer is quoted and whose
\* transform strips the quotes.
dnsServers(version) ==
  [i \in 1..NumDns |->
     [server |-> i, transform |-> (i > (NumDns + 1) \div 2)]]

httpsUrls(version) == [i \in 1..NumBuiltin |-> <<"builtin", version, i>>]

FallbackLists ==
  {[i \in 1..n |-> <<"fallback", i>>] : n \in 0..MaxFallback}

Entry == {"v4", "v6", "any"}

Options ==
  [fn : Entry, onlyHttps : BOOLEAN, timeout : BOOLEAN, signal : BOOLEAN,
   fallbackUrls : FallbackLists]

\* the families whose pipeline a call runs
Active(fn) == IF fn = "any" THEN Family ELSE {fn}

(* ------------------------------------------------------------------ *)
(* Errors and promises.                                                *)
(* ------------------------------------------------------------------ *)
NoCause == [src |-> "none", idx |-> 0, kind |-> "none"]
TimeoutReason == [src |-> "signal", idx |-> 0, kind |-> "TimeoutError"]
UserReason == [src |-> "signal", idx |-> 0, kind |-> "AbortError"]

Unstarted == [st |-> "none", ip |-> <<>>, cause |-> NoCause]
Pending == [st |-> "pending", ip |-> <<>>, cause |-> NoCause]
Fulfilled(ip) == [st |-> "ok", ip |-> ip, cause |-> NoCause]
Rejected(reason) == [st |-> "abort", ip |-> <<>>, cause |-> reason]
IpNotFoundError(cause) == [st |-> "notfound", ip |-> <<>>, cause |-> cause]

\* one candidate of a race: its promise state and, once it produced a valid
\* literal, the text the transport delivered
InFlight == [st |-> "pending", text |-> <<>>]
\* a request whose response has arrived and whose body is being read
Reading == [st |-> "reading", text |-> <<>>]
\* the awaits a candidate can be at
Awaiting == {"pending", "reading"}
Failed(kind) == [st |-> kind, text |-> <<>>]
Won(text) == [st |-> "ok", text |-> text]

FailKinds == {"error", "http", "invalid", "abort"}

\* the rejection value of a failed candidate; an aborted fetch rejects with
\* the signal's reason itself
errorOf(c, src, i, reason) ==
  IF c.st = "abort" THEN reason ELSE [src |-> src, idx |-> i, kind |-> c.st]

\* errors.at(-1) ?? error, over the AggregateError of Promise.any
lastError(cands, src, reason) ==
  IF Len(cands) = 0
  THEN [src |-> src, idx |-> 0, kind |-> "AggregateError"]
  ELSE errorOf(cands[Len(cands)], src, Len(cands), reason)

(* ------------------------------------------------------------------ *)
(* createDnsQuery: the value of one DNS candidate from its reply.      *)
(* ------------------------------------------------------------------ *)
DnsReplies(texts) ==
  {[t |-> "error", data |-> <<>>], [t |-> "noanswer", data |-> <<>>]}
    \cup {[t |-> "answer", data |-> x] : x \in texts}

dnsIp(question, data) ==
  LET response == trim(data)
  IN  IF question.transform THEN stripQuotes(response) ELSE response

\* dns({retries: 0, ...})
retries == 0

\* the queries a candidate's socket sends for its one socket.query call:
\* the first attempt and the configured retries
socketQueries == 1 + retries

createDnsQueryNoValidate(question, version, reply) ==
  IF reply.t # "answer" THEN Failed("error") ELSE Won(reply.data)

createDnsQuery(question, version, reply) ==
  IF reply.t # "answer" THEN Failed("error")
  ELSE IF validateIp(dnsIp(question, reply.data), version) THEN Won(reply.data)
  ELSE Failed("invalid")

(* ------------------------------------------------------------------ *)
(* queryHttps: one request of the list. `cand` is where the request    *)
(* is (at "await fetch" or at "await response.text()"), `reply` what   *)
(* the await resumes with.                                             *)
(* ------------------------------------------------------------------ *)
\* what an await of a request can resume with: fetch with a network error
\* or a response (ok or not), response.text() with an error or the body
FetchReplies(cand, texts) ==
  IF cand.st = "pending"
  THEN {[t |-> "error", text |-> <<>>], [t |-> "status", text |-> <<>>],
        [t |-> "ok", text |-> <<>>]}
  ELSE {[t |-> "error", text |-> <<>>]} \cup {[t |-> "text", text |-> x] : x \in texts}

webIp(text) == trim(text)

requestNoValidate(version, cand, reply) ==
  IF reply.t = "error" THEN Failed("error")
  ELSE IF cand.st = "pending"
  THEN IF reply.t = "status" THEN Failed("http") ELSE Reading
  ELSE Won(reply.text)

request(version, cand, reply) ==
  IF reply.t = "error" THEN Failed("error")
  ELSE IF cand.st = "pending"
  THEN IF reply.t = "status" THEN Failed("http") ELSE Reading
  ELSE IF validateIp(webIp(reply.text), version) THEN Won(reply.text)
  ELSE Failed("invalid")

urlListNoFallback(urls, options) == urls

urlList(urls, options) == urls \o options.fallbackUrls

(* ------------------------------------------------------------------ *)
(* Promise.any over the candidates, wrapped as queryDns / queryHttps   *)
(* do: `old` is the race's promise before the event, `cands` the       *)
(* candidates after it.                                                *)
(* ------------------------------------------------------------------ *)
AllFailed(cands) == \A i \in 1..Len(cands) : cands[i].st \in FailKinds

queryDnsFailFast(version, old, cands, reason) ==
  IF old.st # "pending" THEN old
  ELSE IF \E i \in 1..Len(cands) : cands[i].st = "ok"
  THEN LET i == CHOOSE k \in 1..Len(cands) : cands[k].st = "ok"
       IN  Fulfilled(dnsIp(dnsServers(version)[i], cands[i].text))
  ELSE IF \E i \in 1..Len(cands) : cands[i].st \in FailKinds
  THEN IpNotFoundError(lastError(cands, "dns", reason))
  ELSE old

queryDns(version, old, cands, reason) ==
  IF old.st # "pending" THEN old
  ELSE IF \E i \in 1..Len(cands) : cands[i].st = "ok"
  THEN LET i == CHOOSE k \in 1..Len(cands) : cands[k].st = "ok"
       IN  Fulfilled(dnsIp(dnsServers(version)[i], cands[i].text))
  ELSE IF AllFailed(cands) THEN IpNotFoundError(lastError(cands, "dns", reason))
  ELSE old

\* Promise.allSettled, then the first-listed success
queryHttpsWaitsForAll(version, old, cands, reason) ==
  IF old.st # "pending" THEN old
  ELSE IF \E i \in 1..Len(cands) : cands[i].st \in Awaiting THEN old
  ELSE IF \E i \in 1..Len(cands) : cands[i].st = "ok"
  THEN LET i == CHOOSE k \in 1..Len(cands) :
                  cands[k].st = "ok" /\ \A j \in 1..(k - 1) : cands[j].st # "ok"
       IN  Fulfilled(webIp(cands[i].text))
  ELSE IpNotFoundError(lastError(cands, "https", reason))

\* a race that is never rejected when every candidate failed
queryHttpsNeverRejects(version, old, cands, reason) ==
  IF old.st # "pending" THEN old
  ELSE IF \E i \in 1..Len(cands) : cands[i].st = "ok"
  THEN LET i == CHOOSE k \in 1..Len(cands) : cands[k].st = "ok"
       IN  Fulfilled(webIp(cands[i].text))
  ELSE old

queryHttps(version, old, cands, reason) ==
  IF old.st # "pending" THEN old
  ELSE IF \E i \in 1..Len(cands) : cands[i].st = "ok"
  THEN LET i == CHOOSE k \in 1..Len(cands) : cands[k].st = "ok"
       IN  Fulfilled(webIp(cands[i].text))
  ELSE IF AllFailed(cands) THEN IpNotFoundError(lastError(cands, "https", reason))
  ELSE old

(* ------------------------------------------------------------------ *)
(* queryAll / nodeQueryFunction: the promise of the pipeline from the  *)
(* promises of its two races.                                          *)
(* ------------------------------------------------------------------ *)
queryAllNoFallback(dnsPromise, httpsPromise) == dnsPromise

queryAllRethrowsDns(dnsPromise, httpsPromise) ==
  IF dnsPromise.st = "notfound" /\ httpsPromise.st # "notfound"
  THEN httpsPromise
  ELSE dnsPromise

queryAll(dnsPromise, httpsPromise) ==
  IF dnsPromise.st = "notfound" THEN httpsPromise ELSE dnsPromise

\* nodeQueryFunction: the function the call runs
nodeQueryFunctionIgnoresOnlyHttps(options) == "queryAll"

nodeQueryFunction(options) ==
  IF options.onlyHttps THEN "queryHttps" ELSE "queryAll"

\* the promise nodeQueryFunction returns, from the promises of the races
queryFunction(options, dnsPromise, httpsPromise) ==
  IF nodeQueryFunction(options) = "queryHttps"
  THEN httpsPromise
  ELSE queryAll(dnsPromise, httpsPromise)

(* ------------------------------------------------------------------ *)
(* createAbortSignal / withAbortSignal                                 *)
(* ------------------------------------------------------------------ *)
createAbortSignalNoCheck(timeout, signal, aborted) ==
  [throws |-> FALSE,
   kind |-> IF ~timeout /\ ~signal THEN "none"
            ELSE IF timeout /\ signal THEN "any"
            ELSE IF timeout THEN "timeout" ELSE "signal"]

createAbortSignal(timeout, signal, aborted) ==
  IF signal /\ aborted THEN [throws |-> TRUE, kind |-> "none"]
  ELSE [throws |-> FALSE,
        kind |-> IF ~timeout /\ ~signal THEN "none"
                 ELSE IF timeout /\ signal THEN "any"
                 ELSE IF timeout THEN "timeout" ELSE "signal"]

\* Promise.race([promise, abortPromise]): `old` is the returned promise
\* before the event, `promise` the pipeline's promise after it, `fired`
\* whether this event is the abort event.  The abort listener rejects
\* abortPromise synchronously in the abort event and the race reacts to it one
\* reaction later, whereas a fetch rejected by the same event reaches
\* `promise` only through the request function, Promise.any and the catch
\* block of queryHttps: the abort reason arrives first.
withAbortSignalNoRace(old, promise, fired, reason) ==
  IF old.st # "pending" THEN old ELSE promise

withAbortSignal(old, promise, fired, reason) ==
  IF old.st # "pending" THEN old
  ELSE IF fired THEN Rejected(reason)
  ELSE promise

(* ------------------------------------------------------------------ *)
(* createPublicIp (core.js): first pipeline to produce an address      *)
(* wins; a cancellation surfaces as its reason; otherwise Not-Found.   *)
(* ------------------------------------------------------------------ *)
createPublicIpHidesAbort(old, lookups) ==
  IF old.st # "pending" THEN old
  ELSE IF \E v \in Family : lookups[v].st = "ok"
  THEN LET v == CHOOSE w \in Family : lookups[w].st = "ok" IN lookups[v]
  ELSE IF \A v \in Family : lookups[v].st \in {"notfound", "abort"}
  THEN IpNotFoundError(lookups["v4"].cause)
  ELSE old

\* Promise.all over the two lookups: both must resolve, one failure rejects
createPublicIpNeedsBoth(old, lookups) ==
  IF old.st # "pending" THEN old
  ELSE IF \A v \in Family : lookups[v].st = "ok" THEN lookups["v4"]
  ELSE IF \E v \in Family : lookups[v].st = "abort"
  THEN LET v == CHOOSE w \in Family : lookups[w].st = "abort" IN lookups[v]
  ELSE IF \E v \in Family : lookups[v].st = "notfound"
  THEN LET v == CHOOSE w \in Family : lookups[w].st = "notfound"
       IN  IpNotFoundError(lookups[v].cause)
  ELSE old

createPublicIp(old, lookups) ==
  IF old.st # "pending" THEN old
  ELSE IF \E v \in Family : lookups[v].st = "ok"
  THEN LET v == CHOOSE w \in Family : lookups[w].st = "ok" IN lookups[v]
  ELSE IF \E v \in Family : lookups[v].st = "abort"
  THEN LET v == CHOOSE w \in Family : lookups[w].st = "abort" IN lookups[v]
  ELSE IF \A v \in Family : lookups[v].st = "notfound"
  THEN IpNotFoundError(lookups["v4"].cause)
  ELSE old

(* ------------------------------------------------------------------ *)
(* State of one call.                                                  *)
(* ------------------------------------------------------------------ *)
VARIABLES
  opts,         \* the entry point called and its merged options
  phase,        \* "idle" before the call, then "started", or "threw"
  userAborted,  \* the caller's signal (options.signal) is aborted
  timerFired,   \* the AbortSignal.timeout of the call has fired
  sigReason,    \* reason of the effective signal, NoCause while not aborted
  dns,          \* per family: the DNS candidates (createDnsQuery promises)
  urls,         \* per family: the url list of queryHttps, once it runs
  web,          \* per family: the HTTPS candidates (requests of queryHttps)
  dnsRace,      \* per family: the promise of queryDns
  webRace,      \* per family: the promise of queryHttps
  lookup,       \* per family: the promise createQuery returns
  outcome,      \* the promise the caller holds
  dnsCalls,     \* per family: DNS queries sent
  fetchCalls,   \* per family: fetch calls issued
  destroyed,    \* per family: socket.destroy calls, per DNS candidate
  closer        \* per family and race: the candidate whose rejection was
                \* observed last when the race was exhausted, 0 otherwise

vars ==
  <<opts, phase, userAborted, timerFired, sigReason, dns, urls, web, dnsRace,
    webRace, lookup, outcome, dnsCalls, fetchCalls, destroyed, closer>>

\* texts the transports deliver: every text for a single-family call, one
\* padded literal of each family, a quoted one and garbage for publicIp
ReplyTexts(fn) ==
  IF fn = "any" THEN {Ip4Padded, Ip4Quoted, Ip6Padded, TextGarbage} ELSE Texts

InitWith(entries, fallbacks) ==
  /\ opts \in {o \in Options : o.fn \in entries /\ o.fallbackUrls \in fallbacks}
  /\ phase = "idle"
  /\ userAborted = FALSE
  /\ timerFired = FALSE
  /\ sigReason = NoCause
  /\ dns = [v \in Family |-> <<>>]
  /\ urls = [v \in Family |-> <<>>]
  /\ web = [v \in Family |-> <<>>]
  /\ dnsRace = [v \in Family |-> Unstarted]
  /\ webRace = [v \in Family |-> Unstarted]
  /\ lookup = [v \in Family |-> Unstarted]
  /\ outcome = Unstarted
  /\ dnsCalls = [v \in Family |-> 0]
  /\ fetchCalls = [v \in Family |-> 0]
  /\ destroyed = [v \in Family |-> <<>>]
  /\ closer = [v \in Family |-> [dns |-> 0, web |-> 0]]

Init == InitWith(Family, FallbackLists)

\* publicIp is explored without fallbackUrls
InitAny == InitWith({"any"}, {<<>>})

\* the fetch calls queryHttps issues for its url list under the signal: a
\* fetch given an aborted signal rejects at once with the signal's reason
startRequestsTwice(list, reason) ==
  [i \in 1..(Len(list) + Len(list)) |->
     IF reason # NoCause THEN Failed("abort") ELSE InFlight]

startRequests(list, reason) ==
  [i \in 1..Len(list) |-> IF reason # NoCause THEN Failed("abort") ELSE InFlight]

\* the candidate observed last, recorded when the event exhausts the race
\* (an observation of the run, kept for publicIpv4 / publicIpv6 calls)
closerOf(old, before, after, i) ==
  IF opts.fn \in Family /\ before.st = "pending" /\ after.st = "notfound"
  THEN i
  ELSE old

\* the request whose rejection by the abort is observed last, of the
\* requests awaiting at the abort (all fail after every candidate that
\* failed before it). The platform's fetch decides the order: the list
\* order, or the pending fetches first and then the bodies being read
\* (a body over a stream errors after the fetch promises reject).
lastRejected(cands) ==
  LET all == {i \in 1..Len(cands) : cands[i].st \in Awaiting}
      bodies == {i \in 1..Len(cands) : cands[i].st = "reading"}
      top(S) == CHOOSE i \in S : \A j \in S : j <= i
  IN  IF all = {} THEN {0}
      ELSE {top(all)} \cup (IF bodies = {} THEN {} ELSE {top(bodies)})

\* the promise the caller holds, from the promises of the pipelines
settle(old, lookups) ==
  IF opts.fn = "any" THEN createPublicIp(old, lookups) ELSE lookups[opts.fn]

\* what every event ends with: the pipelines' promises pass through
\* withAbortSignal to the caller
Propagate(dr, wr, fired, reason) ==
  LET lk == [v \in Family |->
               IF v \in Active(opts.fn)
               THEN withAbortSignal(lookup[v],
                                    queryFunction(opts, dr[v], wr[v]),
                                    fired, reason)
               ELSE lookup[v]]
  IN  /\ lookup' = lk
      /\ outcome' = settle(outcome, lk)

(* ------------------------------------------------------------------ *)
(* The caller aborts its signal (before or during the call), or the    *)
(* timeout elapses: the abort event of the effective signal.           *)
(* ------------------------------------------------------------------ *)
Fire(reason) ==
  LET w == [v \in Family |->
              [i \in 1..Len(web[v]) |->
                 IF web[v][i].st \in Awaiting THEN Failed("abort") ELSE web[v][i]]]
      wr == [v \in Family |-> queryHttps(v, webRace[v], w[v], reason)]
  IN  /\ sigReason' = reason
      /\ web' = w
      /\ webRace' = wr
      /\ \E last \in [Family -> 0..(NumBuiltin + MaxFallback)] :
           /\ \A v \in Family : last[v] \in lastRejected(web[v])
           /\ closer' = [v \in Family |->
                           [closer[v] EXCEPT
                              !.web = closerOf(@, webRace[v], wr[v], last[v])]]
      /\ Propagate(dnsRace, wr, TRUE, reason)
      /\ UNCHANGED <<dns, urls, dnsRace, dnsCalls, fetchCalls, destroyed>>

ControllerAbort ==
  /\ opts.signal
  /\ ~userAborted
  /\ userAborted' = TRUE
  /\ IF phase = "started" /\ sigReason = NoCause
     THEN Fire(UserReason)
     ELSE UNCHANGED <<sigReason, dns, urls, web, dnsRace, webRace, lookup,
                      outcome, dnsCalls, fetchCalls, destroyed, closer>>
  /\ UNCHANGED <<opts, phase, timerFired>>

TimeoutFires ==
  /\ phase = "started"
  /\ opts.timeout
  /\ ~timerFired
  /\ timerFired' = TRUE
  /\ IF sigReason = NoCause
     THEN Fire(TimeoutReason)
     ELSE UNCHANGED <<sigReason, dns, urls, web, dnsRace, webRace, lookup,
                      outcome, dnsCalls, fetchCalls, destroyed, closer>>
  /\ UNCHANGED <<opts, phase, userAborted>>

(* ------------------------------------------------------------------ *)
(* The call: createIpFunction -> createQuery -> createAbortSignal,     *)
(* nodeQueryFunction (its synchronous part issues the first race),     *)
(* withAbortSignal.                                                    *)
(* ------------------------------------------------------------------ *)
Call ==
  /\ phase = "idle"
  /\ LET signal == createAbortSignal(opts.timeout, opts.signal, userAborted)
         act == Active(opts.fn)
         stage == IF nodeQueryFunction(opts) = "queryHttps" THEN "https" ELSE "dns"
     IN  IF signal.throws
         THEN /\ phase' = "threw"
              /\ outcome' = Rejected(UserReason)
              /\ UNCHANGED <<dns, urls, web, dnsRace, webRace, lookup, dnsCalls,
                             fetchCalls, destroyed>>
         ELSE /\ phase' = "started"
              /\ dns' = [v \in Family |->
                           IF v \in act /\ stage = "dns"
                           THEN [i \in 1..NumDns |-> InFlight] ELSE <<>>]
              /\ dnsCalls' = [v \in Family |->
                                IF v \in act /\ stage = "dns"
                                THEN NumDns * socketQueries ELSE 0]
              /\ destroyed' = [v \in Family |->
                                 IF v \in act /\ stage = "dns"
                                 THEN [i \in 1..NumDns |-> 0] ELSE <<>>]
              /\ dnsRace' = [v \in Family |->
                               IF v \in act /\ stage = "dns" THEN Pending ELSE Unstarted]
              /\ urls' = [v \in Family |->
                            IF v \in act /\ stage = "https"
                            THEN urlList(httpsUrls(v), opts) ELSE <<>>]
              /\ web' = [v \in Family |-> startRequests(urls'[v], NoCause)]
              /\ fetchCalls' = [v \in Family |-> Len(web'[v])]
              /\ webRace' = [v \in Family |->
                               IF v \in act /\ stage = "https" THEN Pending ELSE Unstarted]
              /\ lookup' = [v \in Family |-> IF v \in act THEN Pending ELSE Unstarted]
              /\ outcome' = Pending
  /\ UNCHANGED <<opts, userAborted, timerFired, sigReason, closer>>

\* a destroy skipped when the query throws (no finally)
socketDestroyOnSuccess(n, result) == IF result.st = "ok" THEN n + 1 ELSE n

\* finally { socket.destroy() }: runs once when socket.query has settled,
\* whatever the result of the candidate
socketDestroy(n, result) == n + 1

(* ------------------------------------------------------------------ *)
(* One DNS candidate completes: its reply is validated, its socket is  *)
(* destroyed, Promise.any reacts; when the race is exhausted, queryAll *)
(* starts queryHttps under the call's signal.                          *)
(* ------------------------------------------------------------------ *)
DnsComplete ==
  \E v \in Family : \E i \in 1..Len(dns[v]) :
  \E reply \in DnsReplies(ReplyTexts(opts.fn)) :
    /\ dns[v][i].st = "pending"
    /\ LET d == [dns[v] EXCEPT ![i] = createDnsQuery(dnsServers(v)[i], v, reply)]
           dr == queryDns(v, dnsRace[v], d, sigReason)
           falls == dnsRace[v].st = "pending" /\ dr.st = "notfound"
           list == IF falls THEN urlList(httpsUrls(v), opts) ELSE urls[v]
           w == IF falls THEN startRequests(list, sigReason) ELSE web[v]
           wr == IF falls THEN queryHttps(v, Pending, w, sigReason) ELSE webRace[v]
       IN  /\ dns' = [dns EXCEPT ![v] = d]
           /\ destroyed' = [destroyed EXCEPT ![v][i] = socketDestroy(@, d[i])]
           /\ dnsRace' = [dnsRace EXCEPT ![v] = dr]
           /\ urls' = [urls EXCEPT ![v] = list]
           /\ web' = [web EXCEPT ![v] = w]
           /\ fetchCalls' = [fetchCalls EXCEPT ![v] = IF falls THEN @ + Len(w) ELSE @]
           /\ webRace' = [webRace EXCEPT ![v] = wr]
           /\ closer' = [closer EXCEPT
                           ![v].dns = closerOf(@, dnsRace[v], dr, i),
                           ![v].web = IF falls THEN closerOf(@, Pending, wr, Len(w))
                                      ELSE @]
           /\ Propagate(dnsRace', webRace', FALSE, sigReason)
    /\ UNCHANGED <<opts, phase, userAborted, timerFired, sigReason, dnsCalls>>

(* ------------------------------------------------------------------ *)
(* The fetch of one request settles: a network error, or a response,   *)
(* whose status the request checks before it awaits the body.          *)
(* ------------------------------------------------------------------ *)
FetchResponds ==
  \E v \in Family : \E i \in 1..Len(web[v]) :
  \E reply \in FetchReplies(InFlight, ReplyTexts(opts.fn)) :
    /\ web[v][i].st = "pending"
    /\ LET w == [web[v] EXCEPT ![i] = request(v, web[v][i], reply)]
           wr == queryHttps(v, webRace[v], w, sigReason)
       IN  /\ web' = [web EXCEPT ![v] = w]
           /\ webRace' = [webRace EXCEPT ![v] = wr]
           /\ closer' = [closer EXCEPT ![v].web = closerOf(@, webRace[v], wr, i)]
           /\ Propagate(dnsRace, webRace', FALSE, sigReason)
    /\ UNCHANGED <<opts, phase, userAborted, timerFired, sigReason, dns, urls,
                   dnsRace, dnsCalls, fetchCalls, destroyed>>

(* ------------------------------------------------------------------ *)
(* response.text() of one request settles: an error, or the body,      *)
(* which the request trims and validates.                              *)
(* ------------------------------------------------------------------ *)
FetchComplete ==
  \E v \in Family : \E i \in 1..Len(web[v]) :
  \E reply \in FetchReplies(Reading, ReplyTexts(opts.fn)) :
    /\ web[v][i].st = "reading"
    /\ LET w == [web[v] EXCEPT ![i] = request(v, web[v][i], reply)]
           wr == queryHttps(v, webRace[v], w, sigReason)
       IN  /\ web' = [web EXCEPT ![v] = w]
           /\ webRace' = [webRace EXCEPT ![v] = wr]
           /\ closer' = [closer EXCEPT ![v].web = closerOf(@, webRace[v], wr, i)]
           /\ Propagate(dnsRace, webRace', FALSE, sigReason)
    /\ UNCHANGED <<opts, phase, userAborted, timerFired, sigReason, dns, urls,
                   dnsRace, dnsCalls, fetchCalls, destroyed>>

Next ==
  \/ ControllerAbort
  \/ Call
  \/ TimeoutFires
  \/ DnsComplete
  \/ FetchResponds
  \/ FetchComplete

\* publicIpv4 / publicIpv6
Spec == Init /\ [][Next]_vars

\* publicIp
SpecAny == InitAny /\ [][Next]_vars

\* publicIpv4 (publicIpv6 runs the same pipeline)
InitFair == InitWith({"v4"}, FallbackLists)

\* publicIpv4 where every transport call completes or fails: a DNS query
\* ends with its reply or with the socket's timeout, a fetch with a
\* response or a network error, the reading of a body with the body or
\* an error
SpecFair ==
  /\ InitFair
  /\ [][Next]_vars
  /\ WF_vars(DnsComplete)
  /\ WF_vars(FetchResponds)
  /\ WF_vars(FetchComplete)

(* ------------------------------------------------------------------ *)
(* Vocabulary of the properties.                                       *)
(* ------------------------------------------------------------------ *)
\* a non-empty string that is a literal of the family and of no other
IsLiteralOf(ip, version) ==
  /\ ip # <<>>
  /\ IF version = "v6" THEN isIPv6(ip) /\ ~isIPv4(ip) ELSE isIPv4(ip) /\ ~isIPv6(ip)

Exhausted(cands) == Len(cands) > 0 /\ AllFailed(cands)

\* failed by itself: not because the signal aborted it
FailedAlone(cands) ==
  Len(cands) > 0 /\ \A i \in 1..Len(cands) : cands[i].st \in FailKinds \ {"abort"}

SomeWon(cands) == \E i \in 1..Len(cands) : cands[i].st = "ok"

NoTransport == \A v \in Family : dnsCalls[v] = 0 /\ fetchCalls[v] = 0

Settled == outcome.st \in {"ok", "notfound", "abort"}

SingleFamily == opts.fn \in Family

(* ------------------------------------------------------------------ *)
(* C1: publicIpv4 / publicIpv6 without onlyHttps, no cancellation      *)
(* fired: as soon as one DNS candidate of the family has completed     *)
(* with a valid literal, the call is resolved with a valid literal of  *)
(* that family, whatever the other DNS candidates did.                 *)
(* ------------------------------------------------------------------ *)
C1_DnsWinnerResolves ==
  (SingleFamily /\ ~opts.onlyHttps /\ sigReason = NoCause /\ SomeWon(dns[opts.fn]))
    => (outcome.st = "ok" /\ IsLiteralOf(outcome.ip, opts.fn))

\* the TXT candidate won after the A candidate had failed
C1_Witness ==
  /\ SingleFamily /\ ~opts.onlyHttps /\ sigReason = NoCause
  /\ Len(dns[opts.fn]) = NumDns
  /\ dns[opts.fn][1].st = "error"
  /\ dns[opts.fn][NumDns] = Won(IF opts.fn = "v4" THEN Ip4Quoted ELSE Ip6Quoted)
  /\ outcome.st = "ok"

(* ------------------------------------------------------------------ *)
(* C2: every DNS candidate failed and an HTTPS candidate produced a    *)
(* valid literal, no cancellation fired: the call is resolved with the *)
(* literal of an HTTPS candidate; the DNS failure is not surfaced.     *)
(* ------------------------------------------------------------------ *)
C2_HttpsFallbackResolves ==
  (/\ SingleFamily /\ ~opts.onlyHttps /\ sigReason = NoCause
   /\ Exhausted(dns[opts.fn]) /\ SomeWon(web[opts.fn]))
    => /\ outcome.st = "ok"
       /\ IsLiteralOf(outcome.ip, opts.fn)
       /\ \E i \in 1..Len(web[opts.fn]) :
            web[opts.fn][i].st = "ok" /\ outcome.ip = trim(web[opts.fn][i].text)

\* DNS exhausted by an invalid answer, built-in urls failed, the fallback url won
C2_Witness ==
  /\ SingleFamily /\ ~opts.onlyHttps /\ sigReason = NoCause
  /\ Exhausted(dns[opts.fn]) /\ dns[opts.fn][1].st = "invalid"
  /\ Len(web[opts.fn]) > NumBuiltin
  /\ \A i \in 1..NumBuiltin : web[opts.fn][i].st \in FailKinds
  /\ web[opts.fn][NumBuiltin + 1].st = "ok"
  /\ outcome.st = "ok"

(* ------------------------------------------------------------------ *)
(* C3: with onlyHttps no DNS query is ever issued, also when every     *)
(* HTTPS candidate fails.                                              *)
(* ------------------------------------------------------------------ *)
C3_OnlyHttpsNoDns ==
  opts.onlyHttps => \A v \in Family : dnsCalls[v] = 0 /\ dns[v] = <<>>

C3_Witness ==
  /\ SingleFamily /\ opts.onlyHttps /\ sigReason = NoCause
  /\ FailedAlone(web[opts.fn])
  /\ outcome.st = "notfound"
  /\ dnsCalls[opts.fn] = 0

(* ------------------------------------------------------------------ *)
(* C4: a call made with an already aborted signal fails with the       *)
(* signal's reason and issues no DNS query and no fetch, then or later.*)
(* ------------------------------------------------------------------ *)
C4_PreAbortedRejects ==
  [][/\ (phase = "idle" /\ userAborted /\ phase' # "idle")
          => (outcome' = Rejected(UserReason) /\ NoTransport')
     /\ (phase # "idle" /\ outcome = Rejected(UserReason) /\ NoTransport)
          => (outcome' = outcome /\ NoTransport')]_vars

C4_Witness ==
  /\ phase # "idle" /\ opts.signal /\ opts.timeout
  /\ outcome = Rejected(UserReason)
  /\ NoTransport

(* ------------------------------------------------------------------ *)
(* C5: when the effective signal fires while the call is pending, the  *)
(* call is rejected with the reason of the trigger that fired (timeout *)
(* or caller's signal), in the DNS stage and in the HTTPS stage, and   *)
(* that rejection stays: it never becomes a Not-Found Error.           *)
(* ------------------------------------------------------------------ *)
C5_AbortSurfacesReason ==
  [][/\ (SingleFamily /\ sigReason = NoCause /\ sigReason' # NoCause
           /\ outcome.st = "pending")
          => /\ outcome' = Rejected(sigReason')
             /\ sigReason' = IF timerFired' # timerFired THEN TimeoutReason
                             ELSE UserReason
     /\ (SingleFamily /\ outcome.st = "abort") => outcome' = outcome]_vars

\* the timeout aborted the pending fetches: queryHttps failed with a
\* Not-Found Error around the reason, the caller got the reason itself
C5_Witness ==
  /\ SingleFamily /\ opts.onlyHttps
  /\ sigReason = TimeoutReason
  /\ webRace[opts.fn] = IpNotFoundError(TimeoutReason)
  /\ outcome = Rejected(TimeoutReason)

(* ------------------------------------------------------------------ *)
(* C6: when every candidate the call ran has failed or delivered a     *)
(* string that is no literal of the family, and no cancellation fired, *)
(* the call is rejected with a Not-Found Error; no candidate that      *)
(* delivered an invalid string counts as a winner.                     *)
(* ------------------------------------------------------------------ *)
C6_AllInvalidNotFound ==
  SingleFamily =>
    LET v == opts.fn IN
    /\ (/\ sigReason = NoCause
        /\ Exhausted(web[v])
        /\ (opts.onlyHttps \/ Exhausted(dns[v])))
         => outcome.st = "notfound"
    /\ \A i \in 1..Len(web[v]) :
         web[v][i].st = "ok" => IsLiteralOf(trim(web[v][i].text), v)
    /\ \A i \in 1..Len(dns[v]) :
         dns[v][i].st = "ok"
           => IsLiteralOf(dnsIp(dnsServers(v)[i], dns[v][i].text), v)

\* every DNS answer and every response body was an invalid string
C6_Witness ==
  /\ SingleFamily /\ ~opts.onlyHttps /\ sigReason = NoCause
  /\ Len(dns[opts.fn]) > 0 /\ Len(web[opts.fn]) > 0
  /\ \A i \in 1..Len(dns[opts.fn]) : dns[opts.fn][i].st = "invalid"
  /\ \A i \in 1..Len(web[opts.fn]) : web[opts.fn][i].st = "invalid"
  /\ outcome.st = "notfound"

(* ------------------------------------------------------------------ *)
(* C7: a call is pending, resolved with a non-empty literal of the     *)
(* requested family (never of the other one), rejected with a          *)
(* Not-Found Error carrying a cause, or rejected with the reason of    *)
(* the cancellation; and once settled it stays as it is.               *)
(* ------------------------------------------------------------------ *)
C7_OutcomeShape ==
  /\ [](SingleFamily /\ phase # "idle" =>
          \/ outcome = Pending
          \/ outcome.st = "ok" /\ IsLiteralOf(outcome.ip, opts.fn)
                /\ outcome.cause = NoCause
          \/ outcome.st = "notfound" /\ outcome.ip = <<>>
                /\ outcome.cause # NoCause
          \/ outcome.st = "abort" /\ outcome.ip = <<>>
                /\ outcome.cause \in {TimeoutReason, UserReason}
                /\ (phase = "started" => outcome.cause = sigReason))
  /\ [][(SingleFamily /\ Settled) => outcome' = outcome]_vars

\* a padded response body: the call resolved with the trimmed literal
C7_Witness ==
  /\ SingleFamily /\ opts.fn = "v6"
  /\ \E i \in 1..Len(web["v6"]) : web["v6"][i] = Won(Ip6Padded)
  /\ outcome = Fulfilled(trim(Ip6Padded))

(* ------------------------------------------------------------------ *)
(* C8: publicIp is resolved with a valid address as soon as the v4 or  *)
(* the v6 lookup is resolved, also when the other lookup has failed,   *)
(* whichever of the two finished first.                                *)
(* ------------------------------------------------------------------ *)
C8_AnyResolvesIfEither ==
  (opts.fn = "any" /\ \E v \in Family : lookup[v].st = "ok")
    => /\ outcome.st = "ok"
       /\ \E v \in Family :
            lookup[v].st = "ok" /\ outcome = lookup[v] /\ IsLiteralOf(outcome.ip, v)

\* the v4 lookup failed entirely, the v6 lookup resolved
C8_Witness ==
  /\ opts.fn = "any"
  /\ lookup["v4"].st = "notfound"
  /\ lookup["v6"].st = "ok"
  /\ outcome = lookup["v6"]

(* ------------------------------------------------------------------ *)
(* C9: queryHttps runs over the built-in urls of the family followed   *)
(* by fallbackUrls in order; with onlyHttps, when every built-in url   *)
(* failed and fallback entries delivered a valid literal (no           *)
(* cancellation fired), the call is resolved with the trimmed response *)
(* of such an entry.                                                   *)
(* ------------------------------------------------------------------ *)
C9_FallbackUrlsAppended ==
  (SingleFamily /\ opts.onlyHttps /\ phase = "started") =>
    LET v == opts.fn IN
    /\ urls[v] = httpsUrls(v) \o opts.fallbackUrls
    /\ Len(web[v]) = Len(urls[v])
    /\ (/\ sigReason = NoCause
        /\ \A i \in 1..NumBuiltin : web[v][i].st \in FailKinds
        /\ \E j \in (NumBuiltin + 1)..Len(web[v]) : web[v][j].st = "ok")
         => /\ outcome.st = "ok"
            /\ \E j \in (NumBuiltin + 1)..Len(web[v]) :
                 web[v][j].st = "ok" /\ outcome.ip = trim(web[v][j].text)

C9_Witness ==
  /\ opts.fn = "v4" /\ opts.onlyHttps /\ sigReason = NoCause
  /\ Len(web["v4"]) = NumBuiltin + 1
  /\ \A i \in 1..NumBuiltin : web["v4"][i].st = "error"
  /\ web["v4"][NumBuiltin + 1] = Won(Ip4Padded)
  /\ outcome = Fulfilled(trim(Ip4Padded))

(* ------------------------------------------------------------------ *)
(* C10: when the DNS race and the HTTPS race are both exhausted and no *)
(* cancellation fired, the call is rejected with a Not-Found Error     *)
(* whose cause is the error of an HTTPS candidate, never of a DNS one. *)
(* ------------------------------------------------------------------ *)
C10_CauseFromHttpsRace ==
  (/\ SingleFamily /\ ~opts.onlyHttps /\ sigReason = NoCause
   /\ Exhausted(dns[opts.fn]) /\ Exhausted(web[opts.fn]))
    => /\ outcome.st = "notfound"
       /\ outcome.cause.src = "https"
       /\ \E i \in 1..Len(web[opts.fn]) :
            outcome.cause = errorOf(web[opts.fn][i], "https", i, sigReason)

C10_Witness ==
  /\ SingleFamily /\ ~opts.onlyHttps /\ sigReason = NoCause
  /\ FailedAlone(dns[opts.fn]) /\ FailedAlone(web[opts.fn])
  /\ dns[opts.fn][NumDns].st = "error"
  /\ web[opts.fn][Len(web[opts.fn])].st = "http"
  /\ outcome.st = "notfound"
  /\ outcome.cause.kind = "http"

(* ------------------------------------------------------------------ *)
C12_CauseIsLastObserved ==
  \A v \in Family :
    /\ (dnsRace[v].st = "notfound" /\ closer[v].dns > 0)
         => dnsRace[v].cause
              = errorOf(dns[v][closer[v].dns], "dns", closer[v].dns, sigReason)
    /\ (webRace[v].st = "notfound" /\ closer[v].web > 0)
         => webRace[v].cause
              = errorOf(web[v][closer[v].web], "https", closer[v].web, sigReason)

(* ------------------------------------------------------------------ *)
(* C13: without onlyHttps, fetch has been called for a family only if  *)
(* every DNS candidate of that family has failed: never while a DNS    *)
(* candidate is pending, never after one produced a valid literal.     *)
(* ------------------------------------------------------------------ *)
C13_HttpsAfterDnsExhausted ==
  \A v \in Family :
    (~opts.onlyHttps /\ (fetchCalls[v] > 0 \/ Len(web[v]) > 0))
      => (Exhausted(dns[v]) /\ dnsRace[v].st = "notfound")

\* the last DNS candidate has just failed: the fetches are in flight
C13_Witness ==
  /\ SingleFamily /\ ~opts.onlyHttps /\ sigReason = NoCause
  /\ FailedAlone(dns[opts.fn])
  /\ fetchCalls[opts.fn] = Len(urls[opts.fn])
  /\ Len(web[opts.fn]) > 0
  /\ \A i \in 1..Len(web[opts.fn]) : web[opts.fn][i].st = "pending"

(* ------------------------------------------------------------------ *)
(* C14: the race is fulfilled by the first candidate that completes    *)
(* with a valid literal, with that candidate's value, whatever its     *)
(* position in the list, and a pending call resolves with it; a        *)
(* settled race and a settled call are not changed by the completion   *)
(* of any other candidate.                                             *)
(* ------------------------------------------------------------------ *)
C14_FirstValidWins ==
  [][SingleFamily =>
       LET v == opts.fn IN
       /\ \A i \in 1..Len(dns[v]) :
            (dnsRace[v].st = "pending" /\ dns[v][i].st = "pending"
               /\ dns'[v][i].st = "ok")
              => /\ dnsRace'[v] = Fulfilled(dnsIp(dnsServers(v)[i], dns'[v][i].text))
                 /\ outcome.st = "pending" => outcome' = dnsRace'[v]
       /\ \A i \in 1..Len(web[v]) :
            (webRace[v].st = "pending" /\ web[v][i].st = "reading"
               /\ web'[v][i].st = "ok")
              => /\ webRace'[v] = Fulfilled(trim(web'[v][i].text))
                 /\ outcome.st = "pending" => outcome' = webRace'[v]
       /\ dnsRace[v].st \in {"ok", "notfound"} => dnsRace'[v] = dnsRace[v]
       /\ webRace[v].st \in {"ok", "notfound"} => webRace'[v] = webRace[v]
       /\ Settled => outcome' = outcome]_vars

\* the second-listed url answered first; the later valid answer of the
\* first-listed url changed nothing
C14_Witness ==
  /\ opts.fn = "v4" /\ opts.onlyHttps
  /\ Len(web["v4"]) >= NumBuiltin
  /\ web["v4"][1] = Won(Ip4Plain)
  /\ web["v4"][NumBuiltin] = Won(Ip4Padded)
  /\ outcome = Fulfilled(trim(Ip4Padded))

(* ------------------------------------------------------------------ *)
(* C15: once the effective signal has fired, no transport call of the  *)
(* call is still in flight, DNS query or HTTPS request.                *)
(* ------------------------------------------------------------------ *)
C15_AbortAbandonsAll ==
  (phase = "started" /\ sigReason # NoCause) =>
    \A v \in Family :
      /\ \A i \in 1..Len(dns[v]) : dns[v][i].st # "pending"
      /\ \A i \in 1..Len(web[v]) : web[v][i].st \notin Awaiting

(* ------------------------------------------------------------------ *)
(* C16: once the effective signal has fired and the call has rejected  *)
(* with its reason, no further transport call is started: no DNS       *)
(* query is sent and fetch is not invoked.                             *)
(* ------------------------------------------------------------------ *)
C16_NoTransportAfterAbort ==
  [][(sigReason # NoCause /\ outcome.st = "abort") =>
       (dnsCalls' = dnsCalls /\ fetchCalls' = fetchCalls)]_vars

(* ------------------------------------------------------------------ *)
(* C17: each DNS candidate has its own socket, destroyed exactly when  *)
(* the candidate's query has settled and never twice; every socket     *)
(* of a started DNS race is eventually destroyed, whether its          *)
(* candidate won, lost, failed, returned an invalid string, or the     *)
(* call was cancelled while it was pending.                            *)
(* ------------------------------------------------------------------ *)
C17_SocketDestroyedOnce ==
  /\ [](\A v \in Family :
          /\ Len(destroyed[v]) = Len(dns[v])
          /\ \A i \in 1..Len(dns[v]) :
               /\ destroyed[v][i] <= 1
               /\ destroyed[v][i] = 1 <=> dns[v][i].st # "pending")
  /\ (\E v \in Family : dnsRace[v].st # "none") ~>
       (\A v \in Family :
          dnsRace[v].st # "none" =>
            (Len(dns[v]) = NumDns /\ \A i \in 1..Len(dns[v]) : destroyed[v][i] = 1))

\* the call was cancelled while both queries were pending (a DNS answer
\* before the abort would have resolved it); one then answered, one failed
C17_Witness ==
  /\ opts.fn = "v4" /\ outcome.st = "abort"
  /\ Len(dns["v4"]) = NumDns
  /\ dns["v4"][1].st = "ok"
  /\ dns["v4"][NumDns].st = "error"
  /\ \A i \in 1..NumDns : destroyed["v4"][i] = 1

(* ------------------------------------------------------------------ *)
(* C18: a call given neither timeout nor signal, whose transport calls *)
(* all complete or fail, eventually resolves or rejects.               *)
(* ------------------------------------------------------------------ *)
C18_TerminatesWithoutSignal ==
  (phase = "started" /\ ~opts.timeout /\ ~opts.signal) ~> Settled

\* both races ran to the end and the call rejected
C18_Witness ==
  /\ SingleFamily /\ ~opts.timeout /\ ~opts.signal /\ ~opts.onlyHttps
  /\ FailedAlone(dns[opts.fn]) /\ FailedAlone(web[opts.fn])
  /\ outcome.st = "notfound"

(* ------------------------------------------------------------------ *)
(* C19: within one call each DNS resolver/question pair and each entry *)
(* of the url list is issued exactly one transport call once its race  *)
(* has started, and a candidate that has completed or failed is never  *)
(* issued again.                                                       *)
(* ------------------------------------------------------------------ *)
C19_OneCallPerTarget ==
  /\ [](\A v \in Family :
          /\ Len(dns[v]) \in {0, NumDns}
          /\ dnsCalls[v] = Len(dns[v])
          /\ Len(web[v]) = Len(urls[v])
          /\ fetchCalls[v] = Len(urls[v]))
  /\ [][\A v \in Family :
          /\ \A i \in 1..Len(dns[v]) :
               dns[v][i].st # "pending" => dns'[v][i] = dns[v][i]
          /\ \A i \in 1..Len(web[v]) :
               web[v][i].st \notin Awaiting => web'[v][i] = web[v][i]
          /\ dnsCalls[v] > 0 => dnsCalls'[v] = dnsCalls[v]
          /\ fetchCalls[v] > 0 => fetchCalls'[v] = fetchCalls[v]]_vars

\* every target of both races has failed; each was called once
C19_Witness ==
  /\ SingleFamily
  /\ Len(opts.fallbackUrls) = MaxFallback
  /\ Exhausted(dns[opts.fn]) /\ Exhausted(web[opts.fn])
  /\ dnsCalls[opts.fn] = NumDns
  /\ fetchCalls[opts.fn] = NumBuiltin + MaxFallback
====
